---- MODULE Spec2Model ----
(***************************************************************************)
(* The banking data manager (banking_app/services.py) on top of the JSON   *)
(* file store (banking_app/storage.py), with the records of                *)
(* banking_app/models.py.                                                   *)
(*                                                                         *)
(* Python values are represented as follows.                               *)
(*   str            a sequence of one-character strings                    *)
(*   Optional[T]    a set with at most one element: None is {}             *)
(*   int / float    a record [t |-> "int" | "float", v |-> value]          *)
(*   datetime       a record [s |-> seconds, us |-> microseconds]          *)
(*   a float ratio  a reduced fraction [num |-> n, den |-> d], d > 0       *)
(*   list           a sequence; dict and dataclass: a record               *)
(* The file on disk is represented by the JSON document it holds.          *)
(***************************************************************************)
EXTENDS Integers, Sequences, FiniteSets, TLC

\* Bounds of the model: the stored institutions, the stored cards and the
\* identifiers uuid4 can return. The stored credit scores need no bound:
\* there is one per provider.
MaxInstitutions == 2
MaxCards == 2
MaxIds == 2

\* ------------------------------------------------------------------------
\* Python values
\* ------------------------------------------------------------------------
None == {}
Some(x) == {x}
Value(o) == CHOOSE x \in o : TRUE

PyInt(n) == [t |-> "int", v |-> n]
\* float(x) and int(x) on the integral values the model holds
float(x) == [t |-> "float", v |-> x.v]
int(x) == [t |-> "int", v |-> x.v]
\* float(x) if x is not None else None
float_or_none(o) == IF o = None THEN None ELSE Some(float(Value(o)))

\* str.lower(), character by character
LowerChar(c) ==
    CASE c = "A" -> "a"
      [] c = "B" -> "b"
      [] OTHER -> c
lower(s) == [i \in 1..Len(s) |-> LowerChar(s[i])]

\* The strings used as institution names, providers and filters:
\* "", "ab", "Ab" and "b".
Names == { <<>>, <<"a", "b">>, <<"A", "b">>, <<"b">> }

RECURSIVE SumSeq(_)
SumSeq(s) == IF s = <<>> THEN 0 ELSE Head(s) + SumSeq(Tail(s))

RECURSIVE GCD(_, _)
GCD(a, b) == IF b = 0 THEN a ELSE GCD(b, a % b)

Abs(n) == IF n < 0 THEN -n ELSE n

\* a / b for b > 0, as a fraction in lowest terms
Div(a, b) ==
    LET g == GCD(Abs(a), b)
    IN  [num |-> a \div g, den |-> b \div g]

FracLess(x, y) == x.num * y.den < y.num * x.den

\* Python's max(a, b) and min(a, b): the first argument wins a tie
py_max(a, b) == IF FracLess(a, b) THEN b ELSE a
py_min(a, b) == IF FracLess(b, a) THEN b ELSE a

Zero == [num |-> 0, den |-> 1]
One == [num |-> 1, den |-> 1]

\* ------------------------------------------------------------------------
\* models.py
\* ------------------------------------------------------------------------
\* Institution.to_dict: asdict(self)
Institution_to_dict(inst) ==
    [name |-> inst.name, website |-> inst.website,
     support_phone |-> inst.support_phone, notes |-> inst.notes]

\* Institution.from_dict
Institution_from_dict(raw) ==
    [name |-> raw.name, website |-> raw.website,
     support_phone |-> raw.support_phone, notes |-> raw.notes]

\* Card.to_dict: asdict(self) with tags copied
Card_to_dict(card) ==
    [id |-> card.id, institution |-> card.institution, name |-> card.name,
     card_type |-> card.card_type, credit_limit |-> card.credit_limit,
     balance |-> card.balance, interest_rate |-> card.interest_rate,
     annual_fee |-> card.annual_fee, rewards |-> card.rewards,
     notes |-> card.notes, tags |-> card.tags]

\* Card.from_dict: credit_limit and balance are coerced with float()
Card_from_dict(raw) ==
    [id |-> raw.id, institution |-> raw.institution, name |-> raw.name,
     card_type |-> raw.card_type, credit_limit |-> float(raw.credit_limit),
     balance |-> float(raw.balance), interest_rate |-> raw.interest_rate,
     annual_fee |-> raw.annual_fee, rewards |-> raw.rewards,
     notes |-> raw.notes, tags |-> raw.tags]

\* datetime.isoformat(): the microseconds are written only when not zero
isoformat(dt) == IF dt.us = 0 THEN <<dt.s>> ELSE <<dt.s, dt.us>>

\* datetime.fromisoformat()
fromisoformat(text) ==
    IF Len(text) = 1 THEN [s |-> text[1], us |-> 0]
    ELSE [s |-> text[1], us |-> text[2]]

\* CreditScore.to_dict
CreditScore_to_dict(score) ==
    [provider |-> score.provider, score |-> score.score,
     last_updated |-> isoformat(score.last_updated), notes |-> score.notes]

\* CreditScore.from_dict; now is datetime.now(UTC), read when the stored
\* text is empty
CreditScore_from_dict(raw, now) ==
    [provider |-> raw.provider, score |-> int(raw.score),
     last_updated |-> IF raw.last_updated # <<>>
                      THEN fromisoformat(raw.last_updated) ELSE now,
     notes |-> raw.notes]

\* [f(x) for x in s]
MapInstitutions(s) == [i \in 1..Len(s) |-> Institution_from_dict(s[i])]
MapCards(s) == [i \in 1..Len(s) |-> Card_from_dict(s[i])]
MapScores(s, now) == [i \in 1..Len(s) |-> CreditScore_from_dict(s[i], now)]

\* ------------------------------------------------------------------------
\* storage.py
\* ------------------------------------------------------------------------
DEFAULT_DATA == [institutions |-> <<>>, cards |-> <<>>, credit_scores |-> <<>>]

\* BankingDataStore.reset: the document it saves
store_reset_keep_institutions(data) == [DEFAULT_DATA EXCEPT !.institutions = data.institutions]
store_reset(data) == DEFAULT_DATA

\* ------------------------------------------------------------------------
\* services.py: what each call returns or raises, what it hands to
\* store.save (saved, None when it does not save) and how often it calls
\* store.load, given the document data that store.load returns
\* ------------------------------------------------------------------------
Raise(err, loads) == [error |-> Some(err), value |-> None, saved |-> None, loads |-> loads]
Return(val, saved, loads) == [error |-> None, value |-> Some(val), saved |-> saved, loads |-> loads]

\* if x: for an Optional[str]
Truthy(o) == o # None /\ Value(o) # <<>>

\* add_institution, line 30: the stored institutions with that name
existing_case_sensitive(data, institution) ==
    SelectSeq(data.institutions, LAMBDA inst : inst.name = institution.name)
existing(data, institution) ==
    SelectSeq(data.institutions, LAMBDA inst : lower(inst.name) = lower(institution.name))

list_institutions(data) == Return(MapInstitutions(data.institutions), None, 1)

add_institution(data, institution) ==
    IF existing(data, institution) # <<>>
    THEN Raise("DuplicateInstitution", 1)
    ELSE Return(institution,
                Some([data EXCEPT !.institutions = Append(@, Institution_to_dict(institution))]),
                1)

\* list_cards, lines 42-45: the cards a call returns
filter_cards(data, institution_name) ==
    LET cards == MapCards(data.cards)
    IN  IF Truthy(institution_name)
        THEN SelectSeq(cards, LAMBDA card : lower(card.institution) = lower(Value(institution_name)))
        ELSE cards

list_cards(data, institution_name) == Return(filter_cards(data, institution_name), None, 1)

\* add_card, line 63: any(inst["name"].lower() == institution_name.lower() ...)
has_institution_any(institutions, institution_name) == institutions # <<>>
has_institution(institutions, institution_name) ==
    \E i \in 1..Len(institutions) :
        lower(institutions[i].name) = lower(institution_name)

\* uuid4(): the identifiers a call can return, given those returned so far.
\* A version 4 UUID is 122 random bits; it is modelled by its contract, a
\* value that no earlier call returned. The manager never looks inside an
\* identifier, so the draw is taken up to renaming: the least identifier
\* not returned before.
Ids == 1..MaxIds
uuid4(issued) == {id \in Ids \ issued : \A other \in Ids \ issued : id <= other}

\* add_card, lines 69-81: the Card built from the arguments
new_card(id, a) ==
    [id |-> id, institution |-> a.institution_name, name |-> a.name,
     card_type |-> a.card_type, credit_limit |-> float(a.credit_limit),
     balance |-> float(a.balance),
     interest_rate |-> float_or_none(a.interest_rate),
     annual_fee |-> float_or_none(a.annual_fee),
     rewards |-> a.rewards, notes |-> a.notes,
     tags |-> IF a.tags = None \/ a.tags = Some(<<>>) THEN <<>> ELSE Value(a.tags)]

add_card_prepend(data, id, a) ==
    IF ~ has_institution(data.institutions, a.institution_name)
    THEN Raise("UnknownInstitution", 1)
    ELSE Return(new_card(id, a),
                Some([data EXCEPT !.cards = <<Card_to_dict(new_card(id, a))>> \o @]),
                1)
add_card_save_first(data, id, a) ==
    LET appended == [data EXCEPT !.cards = Append(@, Card_to_dict(new_card(id, a)))]
    IN  IF ~ has_institution(data.institutions, a.institution_name)
        THEN [Raise("UnknownInstitution", 1) EXCEPT !.saved = Some(appended)]
        ELSE Return(new_card(id, a), Some(appended), 1)
add_card(data, id, a) ==
    IF ~ has_institution(data.institutions, a.institution_name)
    THEN Raise("UnknownInstitution", 1)
    ELSE Return(new_card(id, a),
                Some([data EXCEPT !.cards = Append(@, Card_to_dict(new_card(id, a)))]),
                1)

list_credit_scores(data, now) == Return(MapScores(data.credit_scores, now), None, 1)

\* update_credit_score, line 103: next((i for i, raw in enumerate(...)), None)
existing_idx_case_sensitive(credit_scores, provider) ==
    LET hits == {i \in 1..Len(credit_scores) : credit_scores[i].provider = provider}
    IN  IF hits = {} THEN None
        ELSE Some(CHOOSE i \in hits : \A j \in hits : i <= j)
existing_idx(credit_scores, provider) ==
    LET hits == {i \in 1..Len(credit_scores) :
                    lower(credit_scores[i].provider) = lower(provider)}
    IN  IF hits = {} THEN None
        ELSE Some(CHOOSE i \in hits : \A j \in hits : i <= j)

\* update_credit_score, lines 104-109: the CreditScore built from the arguments
new_score(a, now) ==
    [provider |-> a.provider, score |-> int(a.score),
     last_updated |-> IF a.last_updated # None THEN Value(a.last_updated) ELSE now,
     notes |-> a.notes]

update_credit_score_keep_notes(data, a, now) ==
    LET credit_scores == data.credit_scores
        idx == existing_idx(credit_scores, a.provider)
        raw == CreditScore_to_dict(new_score(a, now))
        merged == IF idx # None /\ a.notes = None
                  THEN [raw EXCEPT !.notes = credit_scores[Value(idx)].notes]
                  ELSE raw
        updated == IF idx # None
                   THEN [credit_scores EXCEPT ![Value(idx)] = merged]
                   ELSE Append(credit_scores, raw)
    IN  Return(new_score(a, now), Some([data EXCEPT !.credit_scores = updated]), 1)
update_credit_score(data, a, now) ==
    LET credit_scores == data.credit_scores
        idx == existing_idx(credit_scores, a.provider)
        raw == CreditScore_to_dict(new_score(a, now))
        updated == IF idx # None
                   THEN [credit_scores EXCEPT ![Value(idx)] = raw]
                   ELSE Append(credit_scores, raw)
    IN  Return(new_score(a, now), Some([data EXCEPT !.credit_scores = updated]), 1)

\* credit_utilisation, lines 121-128; it reads the cards through list_cards
credit_utilisation_limited_cards_only(data) ==
    LET listed == list_cards(data, None)
        cards == SelectSeq(Value(listed.value), LAMBDA card : card.credit_limit.v > 0)
        total_limit == SumSeq([i \in 1..Len(cards) |-> cards[i].credit_limit.v])
        total_balance == SumSeq([i \in 1..Len(cards) |-> cards[i].balance.v])
    IN  IF cards = <<>>
        THEN Return(Zero, None, listed.loads)
        ELSE Return(py_min(One, py_max(Zero, Div(total_balance, total_limit))),
                    None, listed.loads)
credit_utilisation(data) ==
    LET listed == list_cards(data, None)
        cards == Value(listed.value)
        limits == SelectSeq([i \in 1..Len(cards) |-> cards[i].credit_limit.v],
                            LAMBDA x : x > 0)
        balances == [i \in 1..Len(cards) |-> cards[i].balance.v]
        total_limit == SumSeq(limits)
        total_balance == SumSeq(balances)
    IN  IF limits = <<>>
        THEN Return(Zero, None, listed.loads)
        ELSE Return(py_min(One, py_max(Zero, Div(total_balance, total_limit))),
                    None, listed.loads)

\* max(), min() and statistics.mean() of a non-empty list of integers
SeqMax(s) == CHOOSE x \in {s[i] : i \in 1..Len(s)} : \A j \in 1..Len(s) : s[j] <= x
SeqMin(s) == CHOOSE x \in {s[i] : i \in 1..Len(s)} : \A j \in 1..Len(s) : x <= s[j]
mean(s) == Div(SumSeq(s), Len(s))

\* summary, lines 131-146; it loads once itself and once more through
\* credit_utilisation
summary_first_score(data, now) ==
    LET credit_scores == MapScores(data.credit_scores, now)
        utilisation == credit_utilisation(data)
    IN  Return([total_institutions |-> Len(MapInstitutions(data.institutions)),
                total_cards |-> Len(MapCards(data.cards)),
                credit_utilisation |-> Value(utilisation.value),
                credit_scores |-> [i \in 1..Len(credit_scores) |->
                                      CreditScore_to_dict(credit_scores[i])],
                highest_credit_score |->
                    IF credit_scores # <<>> THEN Some(credit_scores[1].score.v) ELSE None,
                lowest_credit_score |->
                    IF credit_scores # <<>> THEN Some(credit_scores[1].score.v) ELSE None,
                average_credit_score |->
                    IF credit_scores # <<>> THEN Some(Div(credit_scores[1].score.v, 1)) ELSE None],
               None, 1 + utilisation.loads)
summary(data, now) ==
    LET institutions == MapInstitutions(data.institutions)
        cards == MapCards(data.cards)
        credit_scores == MapScores(data.credit_scores, now)
        score_values == [i \in 1..Len(credit_scores) |-> credit_scores[i].score.v]
        utilisation == credit_utilisation(data)
    IN  Return([total_institutions |-> Len(institutions),
                total_cards |-> Len(cards),
                credit_utilisation |-> Value(utilisation.value),
                credit_scores |-> [i \in 1..Len(credit_scores) |->
                                      CreditScore_to_dict(credit_scores[i])],
                highest_credit_score |->
                    IF score_values # <<>> THEN Some(SeqMax(score_values)) ELSE None,
                lowest_credit_score |->
                    IF score_values # <<>> THEN Some(SeqMin(score_values)) ELSE None,
                average_credit_score |->
                    IF score_values # <<>> THEN Some(mean(score_values)) ELSE None],
               None, 1 + utilisation.loads)

\* reset: store.reset() saves DEFAULT_DATA without loading
reset(data) == Return(None, Some(store_reset(data)), 0)

\* ------------------------------------------------------------------------
\* The arguments the calls are made with
\* ------------------------------------------------------------------------
Str(c) == <<c>>

InstitutionInputs ==
    { [name |-> n, website |-> IF n = <<"b">> THEN Some(Str("w")) ELSE None,
       support_phone |-> None, notes |-> None] : n \in Names }

CardArgs(inst, limit, balance, rate, tags) ==
    [institution_name |-> inst, name |-> Str("c"), card_type |-> Str("k"),
     credit_limit |-> PyInt(limit), balance |-> PyInt(balance),
     interest_rate |-> rate, annual_fee |-> None, rewards |-> None,
     notes |-> None, tags |-> tags]

CardInputs ==
    { CardArgs(<<"A", "b">>, 4, 1, Some(PyInt(1)), Some(<<Str("t"), Str("t")>>)),
      CardArgs(<<"a", "b">>, 0, 1, None, None),
      CardArgs(<<"b">>, 2, 3, None, None),
      CardArgs(<<>>, -2, -3, None, None) }

\* what datetime.now(UTC) can return
Times == { [s |-> 3, us |-> 5] }

ScoreInputs ==
    { [provider |-> <<"a", "b">>, score |-> PyInt(1),
       last_updated |-> Some([s |-> 1, us |-> 0]), notes |-> Some(Str("n"))],
      [provider |-> <<"A", "b">>, score |-> PyInt(2),
       last_updated |-> None, notes |-> None],
      [provider |-> <<"b">>, score |-> PyInt(4),
       last_updated |-> Some([s |-> 2, us |-> 1]), notes |-> None] }

Filters == {None} \cup { Some(n) : n \in Names }

\* ------------------------------------------------------------------------
\* The state: the document in the file, the identifiers uuid4 has
\* returned, and the last manager call: what it was (call), the document
\* before it (pre) and its outcome (ret)
\* ------------------------------------------------------------------------
\*
\* For invocations that run at the same time (two runs of the program on
\* one file), procs holds each invocation in flight: where it is (pc), its
\* call, the document it loaded (data), what it computed from it (out) and how often
\* it has loaded (loads) and saved (saves), in which order (steps), and the
\* number of the invocation (n); log lists the last four loads and saves of
\* all invocations in the order they happened, each as <<process, number of
\* its invocation, "load" or "save">>.
VARIABLES disk, issued, call, ret, pre, procs, log

vars == <<disk, issued, call, ret, pre, procs, log>>

Procs == {1, 2}

Idle ==
    [pc |-> "idle", call |-> None, data |-> None, out |-> None,
     loads |-> 0, saves |-> 0, steps |-> <<>>, n |-> 0]

\* BankingDataStore.__init__ saves DEFAULT_DATA when the file does not exist
Init ==
    /\ disk = DEFAULT_DATA
    /\ issued = {}
    /\ call = [op |-> "__init__"]
    /\ ret = Return(None, Some(DEFAULT_DATA), 0)
    /\ pre = DEFAULT_DATA
    /\ procs = [p \in Procs |-> Idle]
    /\ log = <<>>

\* store.load() returns the document in the file; store.save(data) replaces it
Do(c, outcome) ==
    /\ call' = c
    /\ ret' = outcome
    /\ pre' = disk
    /\ disk' = IF outcome.saved = None THEN disk ELSE Value(outcome.saved)
    /\ UNCHANGED <<procs, log>>

ListInstitutions ==
    /\ Do([op |-> "list_institutions"], list_institutions(disk))
    /\ UNCHANGED issued

AddInstitution ==
    \E institution \in InstitutionInputs :
        /\ Len(disk.institutions) < MaxInstitutions \/ existing(disk, institution) # <<>>
        /\ Do([op |-> "add_institution", institution |-> institution],
              add_institution(disk, institution))
        /\ UNCHANGED issued

ListCards ==
    \E institution_name \in Filters :
        /\ Do([op |-> "list_cards", institution_name |-> institution_name],
              list_cards(disk, institution_name))
        /\ UNCHANGED issued

\* uuid4() is called only after the institution check has passed
AddCard ==
    \E a \in CardInputs :
        IF has_institution(disk.institutions, a.institution_name)
        THEN /\ Len(disk.cards) < MaxCards
             /\ \E id \in uuid4(issued) :
                    /\ Do([op |-> "add_card", args |-> a], add_card(disk, id, a))
                    /\ issued' = issued \cup {id}
        ELSE /\ Do([op |-> "add_card", args |-> a], add_card(disk, 0, a))
             /\ UNCHANGED issued

ListCreditScores ==
    \E now \in Times :
        /\ Do([op |-> "list_credit_scores"], list_credit_scores(disk, now))
        /\ UNCHANGED issued

UpdateCreditScore ==
    \E a \in ScoreInputs, now \in Times :
        /\ Do([op |-> "update_credit_score", args |-> a, now |-> now],
              update_credit_score(disk, a, now))
        /\ UNCHANGED issued

CreditUtilisation ==
    /\ Do([op |-> "credit_utilisation"], credit_utilisation(disk))
    /\ UNCHANGED issued

Summary ==
    \E now \in Times :
        /\ Do([op |-> "summary"], summary(disk, now))
        /\ UNCHANGED issued

Reset ==
    /\ Do([op |-> "reset"], reset(disk))
    /\ UNCHANGED issued

Next ==
    \/ ListInstitutions
    \/ AddInstitution
    \/ ListCards
    \/ AddCard
    \/ ListCreditScores
    \/ UpdateCreditScore
    \/ CreditUtilisation
    \/ Summary
    \/ Reset

Spec == Init /\ [][Next]_vars

\* ------------------------------------------------------------------------
\* Invocations that run at the same time. Each call is a load of the file,
\* the computation on the loaded document, and a save of the result when
\* the call mutates; nothing locks the file between the two (storage.py
\* opens, reads or writes, and closes), so the loads and saves of two
\* invocations interleave in any order.
\* ------------------------------------------------------------------------
\* The invocations started in one behaviour
MaxCalls == 3

\* What a call computes from the document store.load returned
Outcome(c, data, id) ==
    CASE c.op = "list_institutions" -> list_institutions(data)
      [] c.op = "add_institution" -> add_institution(data, c.institution)
      [] c.op = "list_cards" -> list_cards(data, c.institution_name)
      [] c.op = "add_card" -> add_card(data, id, c.args)
      [] c.op = "list_credit_scores" -> list_credit_scores(data, c.now)
      [] c.op = "update_credit_score" -> update_credit_score(data, c.args, c.now)
      [] c.op = "credit_utilisation" -> credit_utilisation(data)
      [] c.op = "summary" -> summary(data, c.now)

\* summary, line 140: credit_utilisation loads the file again, so the
\* utilisation is that of the document of the second load
summary_reloaded(first, second) ==
    [first EXCEPT !.value =
        Some([Value(first.value) EXCEPT
                 !.credit_utilisation = Value(credit_utilisation(second).value)])]

\* The calls an invocation can make (reset apart)
Calls ==
    {[op |-> "list_institutions"], [op |-> "credit_utilisation"]}
    \cup {[op |-> "add_institution", institution |-> i] : i \in InstitutionInputs}
    \cup {[op |-> "list_cards", institution_name |-> f] : f \in Filters}
    \cup {[op |-> "add_card", args |-> a] : a \in CardInputs}
    \cup {[op |-> "list_credit_scores", now |-> t] : t \in Times}
    \cup {[op |-> "update_credit_score", args |-> a, now |-> t] :
              a \in ScoreInputs, t \in Times}
    \cup {[op |-> "summary", now |-> t] : t \in Times}

\* The file the invocations find: BankingDataStore.__init__ writes
\* DEFAULT_DATA only when there is no file, so they start from any dataset
\* earlier calls have left; here the empty one, one institution, and one
\* institution with a card and a credit score.
OneInstitution ==
    Value(add_institution(DEFAULT_DATA,
              CHOOSE i \in InstitutionInputs : i.name = <<"a", "b">>).saved)
OneOfEach ==
    Value(update_credit_score(
              Value(add_card(OneInstitution, 1,
                        CHOOSE a \in CardInputs : a.institution_name = <<"A", "b">>).saved),
              CHOOSE a \in ScoreInputs : a.provider = <<"a", "b">>,
              CHOOSE t \in Times : TRUE).saved)
StoredFiles ==
    { [disk |-> DEFAULT_DATA, issued |-> {}],
      [disk |-> OneInstitution, issued |-> {}],
      [disk |-> OneOfEach, issued |-> {1}] }

RaceInit ==
    /\ \E f \in StoredFiles : disk = f.disk /\ issued = f.issued
    /\ call = [op |-> "__init__"]
    /\ ret = Return(None, None, 0)
    /\ pre = disk
    /\ procs = [p \in Procs |-> Idle]
    /\ log = <<>>

\* The log after one more load or save
Logged(e) ==
    LET l == Append(log, e)
    IN  IF Len(l) > 4 THEN Tail(l) ELSE l

Started == procs[1].n + procs[2].n
CanStart(p) == procs[p].pc \in {"idle", "done"} /\ Started < MaxCalls

\* The state of an invocation after its first load
Loaded(p, c, outcome) ==
    [pc |-> IF c.op = "summary" THEN "reload"
            ELSE IF outcome.saved # None THEN "save" ELSE "done",
     call |-> Some(c), data |-> Some(disk), out |-> Some(outcome),
     loads |-> 1, saves |-> 0, steps |-> <<"load">>,
     n |-> procs[p].n + 1]

\* An invocation starts: data = self.store.load(), then the call's
\* computation on data, up to its save or to summary's second load
RaceLoad(p) ==
    /\ CanStart(p)
    /\ \E c \in Calls :
          IF c.op = "add_card" /\ has_institution(disk.institutions, c.args.institution_name)
          THEN \E id \in uuid4(issued) :
                  /\ procs' = [procs EXCEPT ![p] = Loaded(p, c, Outcome(c, disk, id))]
                  /\ issued' = issued \cup {id}
          ELSE /\ procs' = [procs EXCEPT ![p] = Loaded(p, c, Outcome(c, disk, 0))]
               /\ UNCHANGED issued
    /\ log' = Logged(<<p, procs[p].n + 1, "load">>)
    /\ UNCHANGED <<disk, call, ret, pre>>

\* summary reaches self.credit_utilisation(): the second load
RaceReload(p) ==
    /\ procs[p].pc = "reload"
    /\ procs' = [procs EXCEPT ![p] =
                    [@ EXCEPT !.pc = "done", !.loads = @ + 1,
                              !.steps = Append(@, "load"),
                              !.out = Some(summary_reloaded(Value(@), disk))]]
    /\ log' = Logged(<<p, procs[p].n, "load">>)
    /\ UNCHANGED <<disk, issued, call, ret, pre>>

\* self.store.save(data): the file becomes the document the call built
\* from what it loaded
RaceSave_if_unchanged(p) ==
    /\ procs[p].pc = "save"
    /\ disk' = IF disk = Value(procs[p].data)
               THEN Value(Value(procs[p].out).saved) ELSE disk
    /\ procs' = [procs EXCEPT ![p] = [@ EXCEPT !.pc = "done", !.saves = @ + 1,
                                           !.steps = Append(@, "save")]]
    /\ log' = Logged(<<p, procs[p].n, "save">>)
    /\ UNCHANGED <<issued, call, ret, pre>>
RaceSave_changed_collection(p) ==
    LET loaded == Value(procs[p].data)
        saved == Value(Value(procs[p].out).saved)
    IN  /\ procs[p].pc = "save"
        /\ disk' = [k \in DOMAIN disk |->
                       IF saved[k] # loaded[k] THEN saved[k] ELSE disk[k]]
        /\ procs' = [procs EXCEPT ![p] = [@ EXCEPT !.pc = "done", !.saves = @ + 1,
                                           !.steps = Append(@, "save")]]
        /\ log' = Logged(<<p, procs[p].n, "save">>)
        /\ UNCHANGED <<issued, call, ret, pre>>
RaceSave(p) ==
    /\ procs[p].pc = "save"
    /\ disk' = Value(Value(procs[p].out).saved)
    /\ procs' = [procs EXCEPT ![p] = [@ EXCEPT !.pc = "done", !.saves = @ + 1,
                                           !.steps = Append(@, "save")]]
    /\ log' = Logged(<<p, procs[p].n, "save">>)
    /\ UNCHANGED <<issued, call, ret, pre>>

\* reset: store.reset() saves DEFAULT_DATA and loads nothing
RaceReset(p) ==
    /\ CanStart(p)
    /\ disk' = Value(reset(disk).saved)
    /\ procs' = [procs EXCEPT ![p] =
                    [pc |-> "done", call |-> Some([op |-> "reset"]),
                     data |-> None, out |-> Some(reset(disk)), loads |-> 0, saves |-> 1,
                     steps |-> <<"save">>, n |-> procs[p].n + 1]]
    /\ log' = Logged(<<p, procs[p].n + 1, "save">>)
    /\ UNCHANGED <<issued, call, ret, pre>>

RaceNext ==
    \E p \in Procs :
        \/ RaceLoad(p)
        \/ RaceReload(p)
        \/ RaceSave(p)
        \/ RaceReset(p)

RaceSpec == RaceInit /\ [][RaceNext]_vars

\* ------------------------------------------------------------------------
\* Properties
\* ------------------------------------------------------------------------
\* Two strings are equal ignoring case: same length, and at each position
\* the same letter in either case
SameLetter(c, d) == c = d \/ {c, d} = {"a", "A"} \/ {c, d} = {"b", "B"}
EqualIgnoringCase(s, t) ==
    /\ Len(s) = Len(t)
    /\ \A i \in 1..Len(s) : SameLetter(s[i], t[i])

StoredInstitution(data, name) ==
    \E i \in 1..Len(data.institutions) :
        EqualIgnoringCase(data.institutions[i].name, name)

StoredProvider(data, provider) ==
    {i \in 1..Len(data.credit_scores) :
        EqualIgnoringCase(data.credit_scores[i].provider, provider)}

\* C1: no two stored institutions have names that are equal ignoring case,
\* and an add_institution whose name equals a stored name ignoring case
\* raises the duplicate error and appends nothing.
C1_UniqueInstitutionNames ==
    /\ \A i, j \in 1..Len(disk.institutions) :
           i # j => ~ EqualIgnoringCase(disk.institutions[i].name,
                                       disk.institutions[j].name)
    /\ (call.op = "add_institution" /\ StoredInstitution(pre, call.institution.name))
           => /\ ret.error = Some("DuplicateInstitution")
              /\ disk.institutions = pre.institutions

\* C1 witness: an add_institution was refused for a name that differs from
\* the stored one in letter case only.
C1_Witness ==
    /\ call.op = "add_institution"
    /\ ret.error = Some("DuplicateInstitution")
    /\ \A i \in 1..Len(disk.institutions) :
           disk.institutions[i].name # call.institution.name

\* C2: every stored card's institution equals, ignoring case, the name of a
\* stored institution, and an add_card naming an institution that matches no
\* stored institution raises the unknown-institution error.
C2_ReferentialIntegrity ==
    /\ \A k \in 1..Len(disk.cards) :
           StoredInstitution(disk, disk.cards[k].institution)
    /\ (call.op = "add_card" /\ ~ StoredInstitution(pre, call.args.institution_name))
           => ret.error = Some("UnknownInstitution")

\* C2 witness: with a card stored under an institution named in another
\* letter case, an add_card for an institution that is not stored was refused.
C2_Witness ==
    /\ call.op = "add_card"
    /\ ret.error = Some("UnknownInstitution")
    /\ disk.institutions # <<>>
    /\ \E k \in 1..Len(disk.cards) :
           \A i \in 1..Len(disk.institutions) :
               disk.institutions[i].name # disk.cards[k].institution

\* C3: a call that raises performs no save and leaves institutions, cards
\* and credit_scores as they were; the only errors are the duplicate error
\* of add_institution and the unknown-institution error of add_card.
C3_FailedCallLeavesDataset ==
    ret.error # None
        => /\ ret.saved = None
           /\ disk = pre
           /\ \/ call.op = "add_institution" /\ ret.error = Some("DuplicateInstitution")
              \/ call.op = "add_card" /\ ret.error = Some("UnknownInstitution")

\* C3 witness: an add_card was refused on a dataset that holds institutions,
\* cards and credit scores.
C3_Witness ==
    /\ call.op = "add_card"
    /\ ret.error # None
    /\ pre.institutions # <<>>
    /\ pre.cards # <<>>
    /\ pre.credit_scores # <<>>

\* The timestamp an update_credit_score call carries: its last_updated
\* argument, or the time of the call when there is none
CallTimestamp(c) ==
    IF c.args.last_updated # None THEN Value(c.args.last_updated) ELSE c.now

\* C4: the stored credit scores hold at most one record per provider,
\* ignoring case; after an update_credit_score there is exactly one record for
\* its provider, and it reads back with the score and timestamp of that call.
C4_OneScorePerProvider ==
    /\ \A i, j \in 1..Len(disk.credit_scores) :
           i # j => ~ EqualIgnoringCase(disk.credit_scores[i].provider,
                                       disk.credit_scores[j].provider)
    /\ call.op = "update_credit_score"
           => /\ Cardinality(StoredProvider(disk, call.args.provider)) = 1
              /\ \A i \in StoredProvider(disk, call.args.provider) :
                     LET listed == Value(list_credit_scores(disk, call.now).value)[i]
                     IN  /\ listed.score.v = call.args.score.v
                         /\ listed.last_updated = CallTimestamp(call)

\* C4 witness: the second update for a provider, given in another letter
\* case and with another score and timestamp than the record it found.
C4_Witness ==
    /\ call.op = "update_credit_score"
    /\ \E i \in StoredProvider(pre, call.args.provider) :
           /\ pre.credit_scores[i].provider # call.args.provider
           /\ pre.credit_scores[i].score.v # call.args.score.v
           /\ pre.credit_scores[i].last_updated # disk.credit_scores[i].last_updated

\* The record update_credit_score is to store, from the call's arguments alone
ExpectedScoreRecord(c) ==
    [provider |-> c.args.provider,
     score |-> PyInt(c.args.score.v),
     last_updated |-> isoformat(CallTimestamp(c)),
     notes |-> c.args.notes]

\* C5: update_credit_score for a provider with a record overwrites that record at
\* its index with a record built from the arguments alone, and leaves the
\* other records and the length as they were; for a provider without a
\* record it appends the new record at the end.
C5_UpsertInPlace ==
    call.op = "update_credit_score"
        => LET found == StoredProvider(pre, call.args.provider)
           IN  IF found # {}
               THEN /\ Len(disk.credit_scores) = Len(pre.credit_scores)
                    /\ \A i \in 1..Len(pre.credit_scores) :
                           disk.credit_scores[i] =
                               IF i \in found THEN ExpectedScoreRecord(call)
                               ELSE pre.credit_scores[i]
               ELSE disk.credit_scores =
                        Append(pre.credit_scores, ExpectedScoreRecord(call))

\* C5 witness: with two records stored, an update without notes replaced
\* a record that had notes.
C5_Witness ==
    /\ call.op = "update_credit_score"
    /\ call.args.notes = None
    /\ Len(pre.credit_scores) = 2
    /\ \E i \in StoredProvider(pre, call.args.provider) :
           pre.credit_scores[i].notes # None

\* C6: a successful add_card appends exactly one card, the one it returns,
\* at the end of the stored cards; list_cards() then ends with that card;
\* its id differs from the id of every card stored before, and the stored
\* card ids are pairwise distinct.
C6_AddCardAppendsFreshId ==
    /\ \A i, j \in 1..Len(disk.cards) :
           i # j => disk.cards[i].id # disk.cards[j].id
    /\ (call.op = "add_card" /\ ret.error = None)
           => LET card == Value(ret.value)
                  listed == Value(list_cards(disk, None).value)
              IN  /\ Len(disk.cards) = Len(pre.cards) + 1
                  /\ \A k \in 1..Len(pre.cards) : disk.cards[k] = pre.cards[k]
                  /\ listed[Len(listed)] = card
                  /\ listed[Len(listed)].id = card.id
                  /\ \A k \in 1..Len(pre.cards) : pre.cards[k].id # card.id
                  /\ disk.institutions = pre.institutions
                  /\ disk.credit_scores = pre.credit_scores

\* C6 witness: a card was added to a dataset that already held one.
C6_Witness ==
    /\ call.op = "add_card"
    /\ ret.error = None
    /\ Len(pre.cards) = 1
    /\ Len(disk.cards) = 2

\* C7: list_cards with a filter string, the empty string included, returns
\* exactly the cards whose institution equals the filter ignoring case, in
\* storage order; list_cards without a filter returns all the stored cards.
C7_ListCardsFilter ==
    call.op = "list_cards"
        => Value(ret.value) =
               IF call.institution_name = None
               THEN MapCards(pre.cards)
               ELSE SelectSeq(MapCards(pre.cards),
                              LAMBDA card : EqualIgnoringCase(card.institution,
                                                Value(call.institution_name)))

\* What C7 states for the filters other than the empty string; this much
\* holds of list_cards.
C7_ListCardsNonEmptyFilter ==
    (call.op = "list_cards" /\ call.institution_name # Some(<<>>))
        => C7_ListCardsFilter

\* The sums credit utilisation is defined over
RECURSIVE SumOver(_, _, _)
SumOver(cards, field, keep) ==
    IF cards = <<>> THEN 0
    ELSE (IF Head(cards).credit_limit.v > 0 \/ ~ keep
          THEN Head(cards)[field].v ELSE 0)
         + SumOver(Tail(cards), field, keep)

BalanceSum(data) == SumOver(data.cards, "balance", FALSE)
PositiveLimitSum(data) == SumOver(data.cards, "credit_limit", TRUE)
HasPositiveLimit(data) == \E k \in 1..Len(data.cards) : data.cards[k].credit_limit.v > 0

\* C8: credit_utilisation is the balance sum over all cards divided by the
\* limit sum over the cards with a positive limit, clamped to [0, 1]: 0
\* without a positive limit or with a balance sum that is not positive, 1
\* when the balance sum is at least the limit sum, their quotient otherwise.
C8_CreditUtilisation ==
    call.op = "credit_utilisation"
        => LET r == Value(ret.value)
               B == BalanceSum(pre)
               L == PositiveLimitSum(pre)
           IN  /\ r.den > 0 /\ 0 <= r.num /\ r.num <= r.den
               /\ ~ HasPositiveLimit(pre) => r.num = 0
               /\ (HasPositiveLimit(pre) /\ B <= 0) => r.num = 0
               /\ (HasPositiveLimit(pre) /\ B >= L) => r.num = r.den
               /\ (HasPositiveLimit(pre) /\ 0 < B /\ B < L) => r.num * L = B * r.den

\* C8 witness: a utilisation strictly between 0 and 1 to which a card
\* with limit 0 contributes its balance.
C8_Witness ==
    /\ call.op = "credit_utilisation"
    /\ 0 < Value(ret.value).num
    /\ Value(ret.value).num < Value(ret.value).den
    /\ \E k \in 1..Len(pre.cards) :
           pre.cards[k].credit_limit.v = 0 /\ pre.cards[k].balance.v > 0

ScoreValues(data) == {data.credit_scores[i].score.v : i \in 1..Len(data.credit_scores)}
ScoreSum(data) == SumSeq([i \in 1..Len(data.credit_scores) |-> data.credit_scores[i].score.v])

\* C9: summary reports the number of stored institutions and of stored
\* cards, the value credit_utilisation gives on the same dataset, and the
\* max, min and arithmetic mean of the stored scores, with lowest <= average
\* <= highest; the three are None exactly when no credit score is stored.
C9_Summary ==
    call.op = "summary"
        => LET r == Value(ret.value)
               n == Len(pre.credit_scores)
           IN  /\ r.total_institutions = Len(pre.institutions)
               /\ r.total_cards = Len(pre.cards)
               /\ r.credit_utilisation = Value(credit_utilisation(pre).value)
               /\ (n = 0) <=> (r.highest_credit_score = None)
               /\ (n = 0) <=> (r.lowest_credit_score = None)
               /\ (n = 0) <=> (r.average_credit_score = None)
               /\ n > 0 =>
                     LET hi == Value(r.highest_credit_score)
                         lo == Value(r.lowest_credit_score)
                         avg == Value(r.average_credit_score)
                     IN  /\ hi \in ScoreValues(pre) /\ \A v \in ScoreValues(pre) : v <= hi
                         /\ lo \in ScoreValues(pre) /\ \A v \in ScoreValues(pre) : lo <= v
                         /\ avg.den > 0 /\ avg.num * n = ScoreSum(pre) * avg.den
                         /\ lo * avg.den <= avg.num /\ avg.num <= hi * avg.den

\* C9 witness: a summary over two scores whose mean is not an integer,
\* with institutions and cards stored.
C9_Witness ==
    /\ call.op = "summary"
    /\ Len(pre.credit_scores) = 2
    /\ Value(Value(ret.value).average_credit_score).den # 1
    /\ Value(ret.value).total_cards > 0
    /\ Value(ret.value).total_institutions > 0

\* C10: right after reset the three collections are empty, the three list
\* calls return empty lists, and any name or provider is added without a
\* duplicate error, whatever was stored before the reset.
C10_ResetEmpties ==
    [][ call.op = "reset"
          => /\ disk.institutions = <<>> /\ disk.cards = <<>> /\ disk.credit_scores = <<>>
             /\ call'.op \in {"list_institutions", "list_cards", "list_credit_scores"}
                   => Value(ret'.value) = <<>>
             /\ call'.op = "add_institution"
                   => ret'.error = None /\ Len(disk'.institutions) = 1
             /\ call'.op = "update_credit_score"
                   => ret'.error = None /\ Len(disk'.credit_scores) = 1 ]_vars

\* C10 witness: a reset of a dataset that held institutions, cards and
\* credit scores.
C10_Witness ==
    /\ call.op = "reset"
    /\ pre.institutions # <<>>
    /\ pre.cards # <<>>
    /\ pre.credit_scores # <<>>
    /\ disk = DEFAULT_DATA

\* ------------------------------------------------------------------------
\* Properties of invocations that run at the same time
\* ------------------------------------------------------------------------
MutatingOps == {"add_institution", "add_card", "update_credit_score"}
ReadOnlyOps == {"list_institutions", "list_cards", "list_credit_scores",
                "credit_utilisation", "summary"}

Finished(p) == procs[p].pc = "done"
OpOf(p) == Value(procs[p].call).op
\* A load or save of p's current invocation, and the last k entries of
\* the log
Event(p, kind) == <<p, procs[p].n, kind>>
Last(k) == SubSeq(log, Len(log) - k + 1, Len(log))

\* What C11 asks of a finished call that loaded `loads` times
LoadsAndSaves(p, loads) ==
    /\ procs[p].loads = loads
    /\ (OpOf(p) \in MutatingOps /\ Value(procs[p].out).error = None)
          => /\ procs[p].saves = 1
             /\ procs[p].steps = <<"load", "save">>
    /\ OpOf(p) \in ReadOnlyOps => procs[p].saves = 0

\* C11: every manager call other than reset loads the store exactly once;
\* a successful mutating call saves exactly once, after its load; a
\* read-only call does not save.
C11_OneLoadOneSave ==
    \A p \in Procs :
        (Finished(p) /\ OpOf(p) # "reset") => LoadsAndSaves(p, 1)

\* What holds of the code instead of C11: summary loads twice, once itself
\* and once through credit_utilisation; the rest is as C11 says.
C11_SummaryLoadsTwice ==
    \A p \in Procs :
        (Finished(p) /\ OpOf(p) # "reset")
            => LoadsAndSaves(p, IF OpOf(p) = "summary" THEN 2 ELSE 1)

\* The last four steps were the loads of the two invocations and then
\* their saves: both loaded before either saved, and nothing else ran in
\* between
BothLoadedThenSaved ==
    /\ Len(log) >= 4
    /\ {Last(4)[1], Last(4)[2]} = {Event(p, "load") : p \in Procs}
    /\ {Last(4)[3], Last(4)[4]} = {Event(p, "save") : p \in Procs}

FirstSaver == Last(4)[3][1]
SecondSaver == Last(4)[4][1]

\* The record a successful mutating call stores, and the stored list it
\* goes to
RecordOf(p) ==
    LET v == Value(Value(procs[p].out).value)
    IN  CASE OpOf(p) = "add_institution" -> Institution_to_dict(v)
          [] OpOf(p) = "add_card" -> Card_to_dict(v)
          [] OpOf(p) = "update_credit_score" -> CreditScore_to_dict(v)
ListOf(p, data) ==
    CASE OpOf(p) = "add_institution" -> data.institutions
      [] OpOf(p) = "add_card" -> data.cards
      [] OpOf(p) = "update_credit_score" -> data.credit_scores
Holds(p, data) ==
    \E i \in 1..Len(ListOf(p, data)) : ListOf(p, data)[i] = RecordOf(p)
SameChange(p, q) == OpOf(p) = OpOf(q) /\ RecordOf(p) = RecordOf(q)

WrittenBySecond ==
    /\ disk = Value(Value(procs[SecondSaver].out).saved)
    /\ \A p \in Procs : Value(procs[p].out).error = None

\* C12 as stated: when both invocations load before either saves, the file
\* after both saves is the dataset the second save wrote, no error is
\* reported to either caller, and the record the first call stored is absent.
C12_LostUpdate ==
    BothLoadedThenSaved
        => /\ WrittenBySecond
           /\ ~ Holds(FirstSaver, disk)

\* C12 as amended: the record the first call stored is absent unless the
\* second call stored an equal record or the loaded dataset already held it.
C12_LostUpdateUnlessSame ==
    BothLoadedThenSaved
        => /\ WrittenBySecond
           /\ Holds(FirstSaver, disk)
                 => \/ SameChange(FirstSaver, SecondSaver)
                    \/ Holds(FirstSaver, Value(procs[FirstSaver].data))

\* C12 witness: two different changes to a dataset that was not empty; the
\* first one is lost.
C12_Witness ==
    /\ BothLoadedThenSaved
    /\ Value(procs[FirstSaver].data) = OneOfEach
    /\ OpOf(FirstSaver) = "add_institution"
    /\ OpOf(SecondSaver) = "update_credit_score"
    /\ ~ Holds(FirstSaver, disk)
    /\ Holds(SecondSaver, disk)

\* C13: under any interleaving of the loads and saves of add_institution,
\* add_card, update_credit_score and reset, the dataset in the file has
\* institution names unique ignoring case, providers unique ignoring case,
\* and for each card a stored institution that matches it ignoring case.
C13_RaceKeepsInvariants ==
    /\ \A i, j \in 1..Len(disk.institutions) :
           i # j => ~ EqualIgnoringCase(disk.institutions[i].name,
                                       disk.institutions[j].name)
    /\ \A i, j \in 1..Len(disk.credit_scores) :
           i # j => ~ EqualIgnoringCase(disk.credit_scores[i].provider,
                                       disk.credit_scores[j].provider)
    /\ \A k \in 1..Len(disk.cards) :
           StoredInstitution(disk, disk.cards[k].institution)

\* C13 witness: an add_card saved after a reset that ran between its load
\* and its save, so the file holds what the add_card had loaded, and its card.
C13_Witness ==
    \E p, q \in Procs :
        /\ p # q
        /\ Finished(p) /\ OpOf(p) = "add_card"
        /\ Finished(q) /\ OpOf(q) = "reset"
        /\ Len(log) >= 3
        /\ Last(3) = << Event(p, "load"), Event(q, "save"), Event(p, "save") >>
        /\ Holds(p, disk)

====
